---- MODULE Spec2Model ----
(***************************************************************************)
(* lightnet: decoding of a darknet region output into bounding boxes       *)
(* (src/lightnet/bbox.py): the in-place tensor decoder, the ranking and    *)
(* greedy non-maximum suppression of BBoxConverter._get_region_boxes_nms,  *)
(* the letterbox transform of BBoxToBrambox and bbox_iou.                  *)
(*                                                                         *)
(* Numbers.  bbox_iou computes on Python floats.  A float is modelled as a *)
(* pair <<m, e>> standing for m * 2^e with |m| < 2^Prec, and every         *)
(* operation rounds its exact result to Prec significant bits, ties to     *)
(* even, as IEEE-754 does (Python: 53 bits; the model: Prec bits, so that  *)
(* the integers stay within TLC's range).  Box coordinates are integers of *)
(* a grid (IoU does not depend on the unit), scores and conf_thresh are    *)
(* integers of a score grid (Scores: 0, 1, 2 for 0.0, 0.5, 1.0).            *)
(***************************************************************************)
EXTENDS Integers, Sequences, FiniteSets, TLC

\* ------------------------------------------------------------------ bounds
Prec == 6            \* significant bits of a modelled float
NumCand == 3         \* num_anchors * h * w: candidates of one image
MaxSize == 4         \* net_size and img_size range over 1..MaxSize
MaxChan == 7         \* channel counts of the decoder's input: 1..MaxChan

\* ------------------------------------------------------- float arithmetic
Pow2(k) == IF k <= 0 THEN 1 ELSE 2 ^ k

RECURSIVE BitLen(_)
BitLen(n) == IF n = 0 THEN 0 ELSE 1 + BitLen(n \div 2)

Abs(n) == IF n < 0 THEN -n ELSE n

\* The canonical pair of m * 2^e: an odd mantissa, or <<0, 0>>.
RECURSIVE Canon(_, _)
Canon(m, e) ==
    IF m = 0 THEN <<0, 0>>
    ELSE IF m % 2 = 0 THEN Canon(m \div 2, e + 1)
    ELSE <<m, e>>

\* n * 2^e (plus a nonzero part below the last bit of n when sticky) rounded
\* to Prec significant bits, ties to even.
RoundSticky(n, e, sticky) ==
    LET a == Abs(n)
        k == BitLen(a) - Prec
    IN  IF k <= 0 THEN Canon(n, e)
        ELSE LET hi == a \div Pow2(k)
                 lo == a % Pow2(k)
                 half == Pow2(k - 1)
                 up == \/ lo > half
                       \/ lo = half /\ (sticky \/ hi % 2 = 1)
                 r == IF up THEN hi + 1 ELSE hi
             IN  Canon(IF n < 0 THEN -r ELSE r, e + k)

Round(n, e) == RoundSticky(n, e, FALSE)

Fl(n) == Round(n, 0)

MinInt(a, b) == IF a <= b THEN a ELSE b

\* a - b as an exact integer multiple of 2^MinInt(a[2], b[2])
DiffMant(a, b) ==
    LET e == MinInt(a[2], b[2])
    IN  a[1] * Pow2(a[2] - e) - b[1] * Pow2(b[2] - e)

FlAdd(a, b) ==
    LET e == MinInt(a[2], b[2])
    IN  Round(a[1] * Pow2(a[2] - e) + b[1] * Pow2(b[2] - e), e)

FlNeg(a) == <<-a[1], a[2]>>

FlSub(a, b) == FlAdd(a, FlNeg(b))

FlMul(a, b) == Round(a[1] * b[1], a[2] + b[2])

\* a / 2.0: exact
FlHalf(a) == Canon(a[1], a[2] - 1)

FlLt(a, b) == DiffMant(a, b) < 0

FlLe(a, b) == DiffMant(a, b) <= 0

FlGt(a, b) == DiffMant(a, b) > 0

FlMin(a, b) == IF FlLt(b, a) THEN b ELSE a

FlMax(a, b) == IF FlGt(b, a) THEN b ELSE a

ZeroDivisionError == <<"ZeroDivisionError">>

\* a / b, correctly rounded; Python raises ZeroDivisionError on b = 0.
FlDiv(a, b) ==
    IF b[1] = 0 THEN ZeroDivisionError
    ELSE LET s == 2 * Prec + 2
             sgn == IF (a[1] < 0) = (b[1] < 0) THEN 1 ELSE -1
             num == Abs(a[1]) * Pow2(s)
             q == num \div Abs(b[1])
             rest == num % Abs(b[1])
         IN  RoundSticky(sgn * q, a[2] - b[2] - s, rest # 0)

FlZero == <<0, 0>>

FlOne == <<1, 0>>

\* ---------------------------------------------------------------- bbox_iou
\* A box is <<xc, yc, w, h>>, integers of the grid.
bbox_iou(box1, box2) ==
    LET x1 == Fl(box1[1])
        y1 == Fl(box1[2])
        w1 == Fl(box1[3])
        h1 == Fl(box1[4])
        x2 == Fl(box2[1])
        y2 == Fl(box2[2])
        w2 == Fl(box2[3])
        h2 == Fl(box2[4])
        mx == FlMin(FlSub(x1, FlHalf(w1)), FlSub(x2, FlHalf(w2)))
        Mx == FlMax(FlAdd(x1, FlHalf(w1)), FlAdd(x2, FlHalf(w2)))
        my == FlMin(FlSub(y1, FlHalf(h1)), FlSub(y2, FlHalf(h2)))
        My == FlMax(FlAdd(y1, FlHalf(h1)), FlAdd(y2, FlHalf(h2)))
        uw == FlSub(Mx, mx)
        uh == FlSub(My, my)
        iw == FlSub(FlAdd(w1, w2), uw)
        ih == FlSub(FlAdd(h1, h2), uh)
    IN  IF FlLe(iw, FlZero) \/ FlLe(ih, FlZero) THEN FlZero
        ELSE LET area1 == FlMul(w1, h1)
                 area2 == FlMul(w2, h2)
                 iarea == FlMul(iw, ih)
                 uarea == FlSub(FlAdd(area1, area2), iarea)
             IN  FlDiv(iarea, uarea)

\* ------------------------------------------------- ranking and suppression
\* One image of the batch (the images are handled one after the other and
\* share no state).  Linear indices anchor*h*w + cell and rank positions are
\* 0..NumCand-1, as in the code.
VARIABLES
    boxes,            \* output[b, a, 0:4, hw] per linear index, decoded
    score,            \* the combined score of each candidate as decoded
    cls_max,          \* the working score array; -1 marks a suppressed one
    cls_max_idx,      \* the class id of each candidate
    cls_max_sort_id,  \* rank position -> linear index
    conf_thresh,
    nms_thresh,
    i,                \* the outer loop's rank position
    j,                \* the inner loop's rank position
    pc,
    box_batch,        \* the survivors: <<xc, yc, w, h, score, class>>
    emitted,          \* the rank position of each survivor, in emission order
    run,              \* 1: the first pass over the image; 2: the second
    first,            \* what the first pass emitted and suppressed
    \* the tensor decoder (lines 38-75)
    num_anchors,
    num_classes,
    output,           \* the network output: channel -> cell -> value
    output0,          \* the caller's array as it was handed over
    hw,               \* h * w, with h = 1: the cells of one row
    dpc,
    derr,             \* the error raised, or "none"
    \* bbox_iou called on its own
    box1,
    box2,
    iou,
    ipc,
    \* BBoxToBrambox (lines 128-142)
    net_size,
    img_size,
    scale,
    pad,
    bpc

nmsVars == <<boxes, score, cls_max, cls_max_idx, cls_max_sort_id, conf_thresh,
             nms_thresh, i, j, pc, box_batch, emitted, run, first>>

decVars == <<num_anchors, num_classes, output, output0, hw, dpc, derr>>

iouVars == <<box1, box2, iou, ipc>>

bbVars == <<net_size, img_size, scale, pad, bpc>>

vars == <<nmsVars, decVars, iouVars, bbVars>>

\* Each component leaves the state of the others alone.
DecIdle ==
    /\ num_anchors = 1
    /\ num_classes = 1
    /\ output = <<>>
    /\ output0 = <<>>
    /\ hw = 1
    /\ dpc = "idle"
    /\ derr = "none"

IouIdle ==
    /\ box1 = <<>>
    /\ box2 = <<>>
    /\ iou = <<>>
    /\ ipc = "idle"

BbIdle ==
    /\ net_size = <<>>
    /\ img_size = <<>>
    /\ scale = <<>>
    /\ pad = <<>>
    /\ bpc = "idle"

NmsFrame == UNCHANGED <<decVars, iouVars, bbVars>>

Idx == 0 .. NumCand - 1

\* Decoded boxes: the second has IoU 1/3 with the first, the third IoU 1/4
\* with both.
BoxSet == {<<2, 2, 2, 2>>, <<3, 2, 2, 2>>, <<2, 2, 4, 4>>}

\* The score grid: 0.0, 0.5, 1.0; conf_thresh ranges over it too.
Scores == 0 .. 2

\* nms_thresh: 0.25, 0.5
NmsSet == {<<1, -2>>, <<1, -1>>}

Classes == {0, 1}

\* torch.sort(cls_max, 1, True): the indices of a descending sort.  torch.sort
\* is not a stable sort, so equal scores come out in any order.
\* (variant: an ascending sort)
torch_sort_mut_ascending(s) ==
    {p \in [Idx -> Idx] :
        /\ \A a, b \in Idx : a # b => p[a] # p[b]
        /\ \A a, b \in Idx : a < b => s[p[a]] <= s[p[b]]}

torch_sort(s) ==
    {p \in [Idx -> Idx] :
        /\ \A a, b \in Idx : a # b => p[a] # p[b]
        /\ \A a, b \in Idx : a < b => s[p[a]] >= s[p[b]]}

\* cls_max[b, idx] < 0: the sentinel of a suppressed candidate
IsSuppressed(s) == s < 0

\* line 92: the outer loop stops at the first score below conf_thresh
\* (variant: no confidence check)
OuterBreakCond_mut_none(s) == FALSE

OuterBreakCond(s) == s < conf_thresh

\* line 110: the inner scan stops at the first active score below conf_thresh
\* (variant: <= for <)
InnerBreakCond_mut_le(s) == s >= 0 /\ s <= conf_thresh

InnerBreakCond(s) == s >= 0 /\ s < conf_thresh

\* line 112: bbox_iou(box_batch[-1], output[b, a2, 0:4, hw2]) > nms_thresh
\* (variants: >= for >; suppression within a class only)
Overlap_mut_ge(b1, b2, c1, c2) == ~FlLt(bbox_iou(b1, b2), nms_thresh)

Overlap_mut_per_class(b1, b2, c1, c2) ==
    c1 = c2 /\ FlGt(bbox_iou(b1, b2), nms_thresh)

Overlap(b1, b2, c1, c2) == FlGt(bbox_iou(b1, b2), nms_thresh)

InitNms ==
    /\ boxes \in [Idx -> BoxSet]
    /\ score \in [Idx -> Scores]
    /\ cls_max = score
    /\ cls_max_idx = [k \in Idx |-> 0]
    /\ cls_max_sort_id = [k \in Idx |-> k]
    /\ conf_thresh \in Scores
    /\ nms_thresh \in NmsSet
    /\ i = 0
    /\ j = 0
    /\ pc = "sort"
    /\ box_batch = <<>>
    /\ emitted = <<>>
    /\ run = 1
    /\ first = <<>>
    /\ DecIdle
    /\ IouIdle
    /\ BbIdle

Sort ==
    /\ pc = "sort"
    /\ cls_max_sort_id' \in torch_sort(cls_max)
    /\ pc' = "outer"
    /\ UNCHANGED <<boxes, score, cls_max, cls_max_idx, conf_thresh, nms_thresh,
                   i, j, box_batch, emitted, run, first>>
    /\ NmsFrame

\* line 90-91: a suppressed candidate is skipped
OuterSkip ==
    /\ pc = "outer"
    /\ i < NumCand
    /\ IsSuppressed(cls_max[cls_max_sort_id[i]])
    /\ i' = i + 1
    /\ UNCHANGED <<boxes, score, cls_max, cls_max_idx, cls_max_sort_id,
                   conf_thresh, nms_thresh, j, pc, box_batch, emitted, run, first>>
    /\ NmsFrame

\* line 92-93: the walk stops; line 115: the image's list is complete
OuterBreak ==
    /\ pc = "outer"
    /\ i < NumCand
    /\ ~IsSuppressed(cls_max[cls_max_sort_id[i]])
    /\ OuterBreakCond(cls_max[cls_max_sort_id[i]])
    /\ pc' = "done"
    /\ UNCHANGED <<boxes, score, cls_max, cls_max_idx, cls_max_sort_id,
                   conf_thresh, nms_thresh, i, j, box_batch, emitted, run, first>>
    /\ NmsFrame

\* line 95-104: the candidate is emitted, and its scan starts at i + 1
Emit ==
    /\ pc = "outer"
    /\ i < NumCand
    /\ ~IsSuppressed(cls_max[cls_max_sort_id[i]])
    /\ ~OuterBreakCond(cls_max[cls_max_sort_id[i]])
    /\ LET idx == cls_max_sort_id[i]
       IN  box_batch' = Append(box_batch,
               <<boxes[idx][1], boxes[idx][2], boxes[idx][3], boxes[idx][4],
                 cls_max[idx], cls_max_idx[idx]>>)
    /\ emitted' = Append(emitted, i)
    /\ j' = i + 1
    /\ pc' = "inner"
    /\ UNCHANGED <<boxes, score, cls_max, cls_max_idx, cls_max_sort_id,
                   conf_thresh, nms_thresh, i, run, first>>
    /\ NmsFrame

\* line 88 exhausted; line 115
OuterEnd ==
    /\ pc = "outer"
    /\ i = NumCand
    /\ pc' = "done"
    /\ UNCHANGED <<boxes, score, cls_max, cls_max_idx, cls_max_sort_id,
                   conf_thresh, nms_thresh, i, j, box_batch, emitted, run, first>>
    /\ NmsFrame

\* line 110-111
InnerBreak ==
    /\ pc = "inner"
    /\ j < NumCand
    /\ InnerBreakCond(cls_max[cls_max_sort_id[j]])
    /\ i' = i + 1
    /\ pc' = "outer"
    /\ UNCHANGED <<boxes, score, cls_max, cls_max_idx, cls_max_sort_id,
                   conf_thresh, nms_thresh, j, box_batch, emitted, run, first>>
    /\ NmsFrame

\* line 112: whether candidate j is active and overlaps the last emitted box
Suppresses ==
    LET idx2 == cls_max_sort_id[j]
        last == box_batch[Len(box_batch)]
    IN  /\ cls_max[idx2] >= 0
        /\ Overlap(<<last[1], last[2], last[3], last[4]>>, boxes[idx2],
                   last[6], cls_max_idx[idx2])

\* line 112-113
InnerSuppress ==
    /\ pc = "inner"
    /\ j < NumCand
    /\ ~InnerBreakCond(cls_max[cls_max_sort_id[j]])
    /\ Suppresses
    /\ cls_max' = [cls_max EXCEPT ![cls_max_sort_id[j]] = -1]
    /\ j' = j + 1
    /\ UNCHANGED <<boxes, score, cls_max_idx, cls_max_sort_id, conf_thresh,
                   nms_thresh, i, pc, box_batch, emitted, run, first>>
    /\ NmsFrame

\* line 112 false: candidate j stays as it is
InnerKeep ==
    /\ pc = "inner"
    /\ j < NumCand
    /\ ~InnerBreakCond(cls_max[cls_max_sort_id[j]])
    /\ ~Suppresses
    /\ j' = j + 1
    /\ UNCHANGED <<boxes, score, cls_max, cls_max_idx, cls_max_sort_id,
                   conf_thresh, nms_thresh, i, pc, box_batch, emitted, run, first>>
    /\ NmsFrame

\* line 106 exhausted
InnerEnd ==
    /\ pc = "inner"
    /\ j = NumCand
    /\ i' = i + 1
    /\ pc' = "outer"
    /\ UNCHANGED <<boxes, score, cls_max, cls_max_idx, cls_max_sort_id,
                   conf_thresh, nms_thresh, j, box_batch, emitted, run, first>>
    /\ NmsFrame

NextNms ==
    \/ Sort
    \/ OuterSkip
    \/ OuterBreak
    \/ Emit
    \/ OuterEnd
    \/ InnerBreak
    \/ InnerSuppress
    \/ InnerKeep
    \/ InnerEnd

Init == InitNms

Next == NextNms

Spec == Init /\ [][Next]_vars

\* ------------------------------------------- two passes, other class ids
\* A network with several classes: the class ids come from the argmax of
\* line 71.  In the first pass every candidate has class 0.  The pass is run a
\* second time on the same image (same boxes, same scores, hence the same
\* ranking) with any other assignment of class ids.  Every assignment is
\* compared with the first pass, so any two are compared with each other.
BoxSetClass == {<<2, 2, 2, 2>>, <<3, 2, 2, 2>>}

\* Scores and conf_thresh of the two passes: 0.5, 1.0
ScoresClass == 1 .. 2

InitClass ==
    /\ boxes \in [Idx -> BoxSetClass]
    /\ score \in [Idx -> ScoresClass]
    /\ cls_max = score
    /\ cls_max_idx = [k \in Idx |-> 0]
    /\ cls_max_sort_id = [k \in Idx |-> k]
    /\ conf_thresh \in ScoresClass
    /\ nms_thresh \in NmsSet
    /\ i = 0
    /\ j = 0
    /\ pc = "sort"
    /\ box_batch = <<>>
    /\ emitted = <<>>
    /\ run = 1
    /\ first = <<>>
    /\ DecIdle
    /\ IouIdle
    /\ BbIdle

SuppressedSet == {p \in Idx : cls_max[cls_max_sort_id[p]] < 0}

Rerun ==
    /\ pc = "done"
    /\ run = 1
    /\ cls_max_idx' \in [Idx -> Classes] \ {cls_max_idx}
    /\ first' = [emitted |-> emitted, suppressed |-> SuppressedSet,
                 cls |-> cls_max_idx]
    /\ run' = 2
    /\ cls_max' = score
    /\ i' = 0
    /\ j' = 0
    /\ box_batch' = <<>>
    /\ emitted' = <<>>
    /\ pc' = "outer"
    /\ UNCHANGED <<boxes, score, cls_max_sort_id, conf_thresh, nms_thresh>>
    /\ NmsFrame

NextClass ==
    \/ Sort
    \/ OuterSkip
    \/ OuterBreak
    \/ Emit
    \/ OuterEnd
    \/ InnerBreak
    \/ InnerSuppress
    \/ InnerKeep
    \/ InnerEnd
    \/ Rerun

SpecClass == InitClass /\ [][NextClass]_vars

\* ------------------------------------------------ claims on the suppressor
Ranked == pc # "sort"

ScoreAt(p) == score[cls_max_sort_id[p]]

BoxAt(p) == boxes[cls_max_sort_id[p]]

EmittedSet == {emitted[k] : k \in 1 .. Len(emitted)}

IouAbove(p, q) == FlGt(bbox_iou(BoxAt(p), BoxAt(q)), nms_thresh)

\* box_batch holds, in order, the candidates at the rank positions of emitted
BatchMatchesEmitted ==
    /\ Len(box_batch) = Len(emitted)
    /\ \A k \in 1 .. Len(emitted) :
          LET c == cls_max_sort_id[emitted[k]]
          IN  box_batch[k] = <<boxes[c][1], boxes[c][2], boxes[c][3],
                               boxes[c][4], score[c], cls_max_idx[c]>>

\* C1: no candidate whose combined score is below conf_thresh is ever in the
\* survivor list, for every image, conf_thresh in [0,1] and nms_thresh.
C1_NoSurvivorBelowConf ==
    Ranked =>
        /\ BatchMatchesEmitted
        /\ \A k \in 1 .. Len(box_batch) :
              /\ box_batch[k][5] >= conf_thresh
              /\ ScoreAt(emitted[k]) >= conf_thresh

C1_Witness ==
    /\ pc = "done"
    /\ Len(box_batch) >= 1
    /\ \E c \in Idx : score[c] < conf_thresh
    /\ \E c \in Idx : cls_max[c] < 0

\* C3: at every point of the pass the emitted boxes are a subsequence of the
\* ranked list restricted to score >= conf_thresh: rank positions strictly
\* increase (nothing is emitted twice), scores do not increase, and there are
\* at most as many survivors as candidates with score >= conf_thresh.
C3_SurvivorsSubsequence ==
    Ranked =>
        /\ BatchMatchesEmitted
        /\ \A k \in 1 .. Len(emitted) : ScoreAt(emitted[k]) >= conf_thresh
        /\ \A k \in 1 .. Len(emitted) - 1 :
              /\ emitted[k] < emitted[k + 1]
              /\ ScoreAt(emitted[k]) >= ScoreAt(emitted[k + 1])
              /\ box_batch[k][5] >= box_batch[k + 1][5]
        /\ \A a, b \in 1 .. Len(emitted) : a # b => emitted[a] # emitted[b]
        /\ Len(box_batch) <= Cardinality({c \in Idx : score[c] >= conf_thresh})

C3_Witness ==
    /\ pc = "inner"
    /\ Len(emitted) = 2
    /\ emitted[2] > emitted[1] + 1
    /\ ScoreAt(emitted[1]) > ScoreAt(emitted[2])

\* The reference greedy suppression without early exits: every rank position
\* is visited, a suppressed one or one below conf_thresh is skipped, and an
\* emitted one is compared with every later active position of score >=
\* conf_thresh.
RECURSIVE RefWalk(_, _, _)
RefWalk(p, active, out) ==
    IF p = NumCand THEN out
    ELSE IF p \notin active \/ ScoreAt(p) < conf_thresh
         THEN RefWalk(p + 1, active, out)
         ELSE RefWalk(p + 1,
                      active \ {q \in active : /\ q > p
                                               /\ ScoreAt(q) >= conf_thresh
                                               /\ IouAbove(p, q)},
                      Append(out, p))

RefNms == RefWalk(0, Idx, <<>>)

\* C9: the two early exits are valid: the pass with its outer and inner break
\* emits exactly what the reference greedy suppression without early exits
\* emits.
C9_EarlyExitsValid ==
    pc = "done" => emitted = RefNms /\ BatchMatchesEmitted

C9_Witness ==
    /\ pc = "done"
    /\ i < NumCand
    /\ Len(emitted) >= 1
    /\ SuppressedSet # {}

\* C10: after the pass every two distinct survivors have IoU <= nms_thresh,
\* and every candidate of score >= conf_thresh that is no survivor has
\* IoU > nms_thresh with a survivor ranked before it.
C10_SurvivorsApartOthersCovered ==
    pc = "done" =>
        /\ \A p, q \in EmittedSet : p # q => ~IouAbove(p, q)
        /\ \A q \in Idx :
              (ScoreAt(q) >= conf_thresh /\ q \notin EmittedSet) =>
                  \E p \in EmittedSet : p < q /\ IouAbove(p, q)

C10_Witness ==
    /\ pc = "done"
    /\ Cardinality(EmittedSet) >= 2
    /\ \E q \in Idx : ScoreAt(q) >= conf_thresh /\ q \notin EmittedSet
    /\ \E p, q \in EmittedSet :
          p # q /\ bbox_iou(BoxAt(p), BoxAt(q)) = nms_thresh

\* The rank position of linear index c
PosOf(c) == CHOOSE p \in Idx : cls_max_sort_id[p] = c

Survives(c) == PosOf(c) \in EmittedSet

Winner(a, b) ==
    IF score[a] > score[b] THEN a
    ELSE IF score[b] > score[a] THEN b
    ELSE IF a < b THEN a ELSE b

Twins(a, b) ==
    /\ a # b
    /\ boxes[a] = boxes[b]
    /\ bbox_iou(boxes[a], boxes[b]) = FlOne
    /\ score[a] >= conf_thresh
    /\ score[b] >= conf_thresh
    /\ FlLt(nms_thresh, FlOne)

\* C2: two candidates of identical geometry (IoU = 1), both of score >=
\* conf_thresh, with nms_thresh < 1: never both survive, and when the
\* higher-ranked of them is not suppressed by a third candidate the one survivor
\* is the higher-scoring one, on equal scores the one of lower linear index.
C2_TwinsLowerIndexWins ==
    pc = "done" =>
        \A a, b \in Idx :
            Twins(a, b) =>
                /\ ~(Survives(a) /\ Survives(b))
                /\ LET hi == IF PosOf(a) < PosOf(b) THEN a ELSE b
                   IN  Survives(hi) =>
                           /\ Survives(Winner(a, b))
                           /\ (Survives(a) /\ ~Survives(b)) \/
                              (Survives(b) /\ ~Survives(a))

\* C6: suppression is class-agnostic: a second pass that differs only in the
\* class ids emits and suppresses the same rank positions, and a candidate
\* whose IoU with an emitted higher-ranked one exceeds nms_thresh does not
\* survive (and is marked suppressed when its score is >= conf_thresh),
\* whatever the two class ids.
C6_ClassAgnostic ==
    /\ (pc = "done" /\ run = 2) =>
          /\ emitted = first.emitted
          /\ SuppressedSet = first.suppressed
    /\ pc = "done" =>
          \A p \in EmittedSet : \A q \in Idx :
              (q > p /\ IouAbove(p, q)) =>
                  /\ q \notin EmittedSet
                  /\ ScoreAt(q) >= conf_thresh => q \in SuppressedSet

C6_Witness ==
    /\ pc = "done"
    /\ run = 2
    /\ \E p \in EmittedSet : \E q \in SuppressedSet :
          /\ q > p
          /\ IouAbove(p, q)
          /\ cls_max_idx[cls_max_sort_id[p]] # cls_max_idx[cls_max_sort_id[q]]
          /\ first.cls[cls_max_sort_id[p]] = first.cls[cls_max_sort_id[q]]

\* -------------------------------------------------------- the tensor decoder
\* _get_region_boxes_nms, lines 41-75, on one image of one row of cells
\* (batch = 1, h = 1, w = hw).  Values are thousandths: 1000 is 1.0.  The
\* array is the caller's: network_output.data shares its storage, and every
\* operation of lines 62-66 works in place.
RawVals == {0, 1000}

\* torch's sigmoid and exp at the raw values, to three decimals
Sigmoid(v) == IF v = 0 THEN 500 ELSE 731

Exp(v) == IF v = 0 THEN 1000 ELSE 2718

\* self.anchors for n anchors: interleaved width, height
Anchors(n) == SubSeq(<<1, 2, 2, 1>>, 1, 2 * n)

anchor_w(a) == Anchors(num_anchors)[2 * a + 1]

anchor_h(a) == Anchors(num_anchors)[2 * a + 2]

NumChan == Cardinality(DOMAIN output)

\* line 61: the size view() infers for -1
K == NumChan \div num_anchors

\* line 62: sigmoid_().add_(lin_x).div_(w)
SigX(a, cell, v) == (Sigmoid(v) + 1000 * cell) \div hw

\* line 63: sigmoid_().add_(lin_y).div_(h), with h = 1 and lin_y = 0
SigY(a, cell, v) == Sigmoid(v)

\* line 64: exp_().mul_(anchor_w).div_(w)
ExpW(a, cell, v) == (Exp(v) * anchor_w(a)) \div hw

\* line 65: exp_().mul_(anchor_h).div_(h), with h = 1
ExpH(a, cell, v) == Exp(v) * anchor_h(a)

\* line 66: sigmoid_()
SigObj(a, cell, v) == Sigmoid(v)

\* what lines 62-66 write to channel k of anchor a
Decoded(k, a, cell, v) ==
    CASE k = 0 -> SigX(a, cell, v)
      [] k = 1 -> SigY(a, cell, v)
      [] k = 2 -> ExpW(a, cell, v)
      [] k = 3 -> ExpH(a, cell, v)
      [] k = 4 -> SigObj(a, cell, v)

\* output[:, :, k, :] decoded in place
InPlace(k) ==
    [c \in DOMAIN output |->
        IF c % K = k
        THEN [cell \in 0 .. hw - 1 |-> Decoded(k, c \div K, cell, output[c][cell])]
        ELSE output[c]]

InitDecode ==
    /\ num_anchors \in 1 .. 2
    /\ num_classes \in 1 .. 2
    /\ hw \in 1 .. 2
    /\ \E chan \in 1 .. MaxChan : \E raw \in [0 .. chan - 1 -> RawVals] :
          output = [c \in 0 .. chan - 1 |-> [cell \in 0 .. hw - 1 |-> raw[c]]]
    /\ output0 = output
    /\ dpc = "view"
    /\ derr = "none"
    /\ boxes = <<>>
    /\ score = <<>>
    /\ cls_max = <<>>
    /\ cls_max_idx = <<>>
    /\ cls_max_sort_id = <<>>
    /\ conf_thresh = 0
    /\ nms_thresh = FlZero
    /\ i = 0
    /\ j = 0
    /\ pc = "idle"
    /\ box_batch = <<>>
    /\ emitted = <<>>
    /\ run = 1
    /\ first = <<>>
    /\ IouIdle
    /\ BbIdle

DecFrame == UNCHANGED <<nmsVars, iouVars, bbVars, num_anchors, num_classes,
                        hw, output0>>

\* line 61: view(batch, num_anchors, -1, h*w)
View ==
    /\ dpc = "view"
    /\ NumChan % num_anchors = 0
    /\ dpc' = "x"
    /\ UNCHANGED <<output, derr>>
    /\ DecFrame

\* line 61: the channels cannot be split among the anchors
ViewError ==
    /\ dpc = "view"
    /\ NumChan % num_anchors # 0
    /\ dpc' = "error"
    /\ derr' = "view"
    /\ UNCHANGED output
    /\ DecFrame

\* line 62
DecodeX ==
    /\ dpc = "x"
    /\ output' = InPlace(0)
    /\ dpc' = "y"
    /\ UNCHANGED derr
    /\ DecFrame

\* line 63
DecodeY ==
    /\ dpc = "y"
    /\ K > 1
    /\ output' = InPlace(1)
    /\ dpc' = "w"
    /\ UNCHANGED derr
    /\ DecFrame

\* line 64
DecodeW ==
    /\ dpc = "w"
    /\ K > 2
    /\ output' = InPlace(2)
    /\ dpc' = "h"
    /\ UNCHANGED derr
    /\ DecFrame

\* line 65
DecodeH ==
    /\ dpc = "h"
    /\ K > 3
    /\ output' = InPlace(3)
    /\ dpc' = "obj"
    /\ UNCHANGED derr
    /\ DecFrame

\* line 66
DecodeObj ==
    /\ dpc = "obj"
    /\ K > 4
    /\ output' = InPlace(4)
    /\ dpc' = "cls"
    /\ UNCHANGED derr
    /\ DecFrame

\* lines 63-66: indexing a channel the view does not have
IndexError ==
    /\ \/ dpc = "y" /\ K <= 1
       \/ dpc = "w" /\ K <= 2
       \/ dpc = "h" /\ K <= 3
       \/ dpc = "obj" /\ K <= 4
    /\ dpc' = "error"
    /\ derr' = "index"
    /\ UNCHANGED output
    /\ DecFrame

\* lines 69-75: the class scores, computed into new tensors
ClassScore ==
    /\ dpc = "cls"
    /\ num_classes = 1 \/ K > 5
    /\ dpc' = "done"
    /\ UNCHANGED <<output, derr>>
    /\ DecFrame

\* line 70: output[:, :, 5:, :] is empty
ClassScoreError ==
    /\ dpc = "cls"
    /\ num_classes > 1
    /\ K <= 5
    /\ dpc' = "error"
    /\ derr' = "empty slice"
    /\ UNCHANGED output
    /\ DecFrame

NextDecode ==
    \/ View
    \/ ViewError
    \/ DecodeX
    \/ DecodeY
    \/ DecodeW
    \/ DecodeH
    \/ DecodeObj
    \/ IndexError
    \/ ClassScore
    \/ ClassScoreError

SpecDecode == InitDecode /\ [][NextDecode]_vars

ChannelMismatch == NumChan # num_anchors * (5 + num_classes)

\* C5: an array whose channel count differs from num_anchors*(5+num_classes)
\* makes the call fail, and no element of the array is modified and no
\* candidate is decoded before the error.
C5_ShapeMismatchFailsFast ==
    (dpc # "idle" /\ ChannelMismatch) =>
        /\ output = output0
        /\ dpc # "done"

\* C7: the decoder has no side effects: when the candidates are decoded the
\* caller's array holds the values it held before the call.
C7_InputUnchanged ==
    dpc = "done" => output = output0

\* ------------------------------------------------------ bbox_iou on its own
IouBoxes ==
    {<<x, y, w, h>> : x \in {3, 5, 63}, y \in {3, 63}, w \in {2, 3}, h \in {2, 4}}

InitIou ==
    /\ box1 \in IouBoxes
    /\ box2 \in IouBoxes
    /\ iou = <<>>
    /\ ipc = "call"
    /\ boxes = <<>>
    /\ score = <<>>
    /\ cls_max = <<>>
    /\ cls_max_idx = <<>>
    /\ cls_max_sort_id = <<>>
    /\ conf_thresh = 0
    /\ nms_thresh = FlZero
    /\ i = 0
    /\ j = 0
    /\ pc = "idle"
    /\ box_batch = <<>>
    /\ emitted = <<>>
    /\ run = 1
    /\ first = <<>>
    /\ DecIdle
    /\ BbIdle

CallIou ==
    /\ ipc = "call"
    /\ iou' = [ab |-> bbox_iou(box1, box2),
               ba |-> bbox_iou(box2, box1),
               aa |-> bbox_iou(box1, box1)]
    /\ ipc' = "done"
    /\ UNCHANGED <<nmsVars, decVars, bbVars, box1, box2>>

NextIou == CallIou

SpecIou == InitIou /\ [][NextIou]_vars

MaxInt(a, b) == IF a >= b THEN a ELSE b

\* twice the length of the overlap of [c1 - l1/2, c1 + l1/2] and
\* [c2 - l2/2, c2 + l2/2], computed on the integers
Overlap2(c1, l1, c2, l2) ==
    MinInt(2 * c1 + l1, 2 * c2 + l2) - MaxInt(2 * c1 - l1, 2 * c2 - l2)

ZeroOverlap(a, b) ==
    \/ Overlap2(a[1], a[3], b[1], b[3]) <= 0
    \/ Overlap2(a[2], a[4], b[2], b[4]) <= 0

\* C4: for boxes of positive width and height bbox_iou(a,b) = bbox_iou(b,a),
\* bbox_iou(a,a) = 1, and bbox_iou(a,b) = 0 when a and b do not overlap.
C4_IouSymmetricReflexiveDisjoint ==
    ipc = "done" =>
        /\ iou.ab = iou.ba
        /\ iou.aa = FlOne
        /\ ZeroOverlap(box1, box2) => iou.ab = FlZero

\* ------------------------------------------------------------ BBoxToBrambox
\* Lines 128-142: the letterbox scale and padding.  Python 3's / is the float
\* division; int() cuts towards zero.
None == "None"

FlGe(a, b) == DiffMant(a, b) >= 0

FlInt(a) ==
    IF a[2] >= 0 THEN a[1] * Pow2(a[2])
    ELSE IF a[1] >= 0 THEN a[1] \div Pow2(-a[2])
    ELSE -((-a[1]) \div Pow2(-a[2]))

\* line 134: the width binds
\* (variant: <= for >=)
WidthBinds_mut_le(im_w, im_h, net_w, net_h) ==
    FlLe(FlDiv(Fl(im_w), Fl(net_w)), FlDiv(Fl(im_h), Fl(net_h)))

WidthBinds(im_w, im_h, net_w, net_h) ==
    FlGe(FlDiv(Fl(im_w), Fl(net_w)), FlDiv(Fl(im_h), Fl(net_h)))

\* lines 129-142
LetterboxScale(net, img) ==
    IF img = None THEN FlOne
    ELSE IF img[1] = net[1] /\ img[2] = net[2] THEN FlOne
    ELSE IF WidthBinds(img[1], img[2], net[1], net[2])
         THEN FlDiv(Fl(net[1]), Fl(img[1]))
         ELSE FlDiv(Fl(net[2]), Fl(img[2]))

LetterboxPad(net, img, sc) ==
    IF img = None THEN <<0, 0>>
    ELSE <<FlInt(FlHalf(FlSub(Fl(net[1]), FlMul(Fl(img[1]), sc)))),
           FlInt(FlHalf(FlSub(Fl(net[2]), FlMul(Fl(img[2]), sc))))>>

Sizes == (1 .. MaxSize) \X (1 .. MaxSize)

InitBrambox ==
    /\ net_size \in Sizes
    /\ img_size \in Sizes \cup {None}
    /\ scale = <<>>
    /\ pad = <<>>
    /\ bpc = "call"
    /\ boxes = <<>>
    /\ score = <<>>
    /\ cls_max = <<>>
    /\ cls_max_idx = <<>>
    /\ cls_max_sort_id = <<>>
    /\ conf_thresh = 0
    /\ nms_thresh = FlZero
    /\ i = 0
    /\ j = 0
    /\ pc = "idle"
    /\ box_batch = <<>>
    /\ emitted = <<>>
    /\ run = 1
    /\ first = <<>>
    /\ DecIdle
    /\ IouIdle

Letterbox ==
    /\ bpc = "call"
    /\ scale' = LetterboxScale(net_size, img_size)
    /\ pad' = LetterboxPad(net_size, img_size, scale')
    /\ bpc' = "done"
    /\ UNCHANGED <<nmsVars, decVars, iouVars, net_size, img_size>>

NextBrambox == Letterbox

SpecBrambox == InitBrambox /\ [][NextBrambox]_vars

Absent == img_size = None

SameSize == ~Absent /\ img_size = net_size

\* the scale of the binding axis, the axis chosen on the exact ratios
BindingScale ==
    IF img_size[1] * net_size[2] >= img_size[2] * net_size[1]
    THEN FlDiv(Fl(net_size[1]), Fl(img_size[1]))
    ELSE FlDiv(Fl(net_size[2]), Fl(img_size[2]))

ScaleAsDerived ==
    /\ (Absent \/ SameSize) => scale = FlOne
    /\ ~(Absent \/ SameSize) => scale = BindingScale

\* C8 as stated: the scale lies in (0,1]: 1 when img_size is absent or equal
\* to net_size, otherwise the ratio of the binding axis, which is at most 1.
C8_ScaleInUnitInterval ==
    bpc = "done" =>
        /\ ScaleAsDerived
        /\ FlGt(scale, FlZero)
        /\ FlLe(scale, FlOne)

\* C8 amended: the scale is positive: 1 when img_size is absent or equal to
\* net_size, otherwise the ratio of the binding axis; it is at most 1 exactly
\* when the image is not smaller than the network on both axes.
C8_ScalePositiveAtMostOneIffNotSmaller ==
    bpc = "done" =>
        /\ ScaleAsDerived
        /\ FlGt(scale, FlZero)
        /\ FlLe(scale, FlOne) <=>
              \/ Absent
              \/ img_size[1] >= net_size[1]
              \/ img_size[2] >= net_size[2]

C8_Witness ==
    /\ bpc = "done"
    /\ ~Absent
    /\ img_size[1] < net_size[1]
    /\ img_size[2] < net_size[2]
    /\ img_size[1] * net_size[2] # img_size[2] * net_size[1]
    /\ FlGt(scale, FlOne)

====
